---- MODULE Spec2Model ----
(***************************************************************************)
(* NIL image layout planner (src/nouveau/nil/image.rs).                    *)
(*                                                                         *)
(* Image::new is modelled as a small state machine: entry (validation and  *)
(* tiling selection), one step per iteration of the mip-level loop, and    *)
(* the tail that derives array stride, size, alignment and PTE kind.  The  *)
(* queries of a finished image are actions that record their outcome in    *)
(* `res`.  A Rust panic (assert!, panic!, out-of-bounds index, unwrap of   *)
(* a failed conversion) is the outcome "panic".                            *)
(*                                                                         *)
(* Extent4D, Tiling and Format live in sibling files (extent.rs,           *)
(* tiling.rs, format.rs); their operators below follow the behaviour the   *)
(* design document describes for those collaborators.                      *)
(*                                                                         *)
(* The u32 products of the size queries keep their width: a product that   *)
(* does not fit 32 bits fails where the build checks overflow and wraps    *)
(* where it does not, and Image::new takes either outcome.  A returned     *)
(* image whose construction overflowed comes from a wrapping build, so the *)
(* queries of a returned image wrap.  Every other byte count of the model  *)
(* stays below 2^31; the one family of large images is chosen so that its  *)
(* wrapped sizes do too.                                                   *)
(***************************************************************************)
EXTENDS Integers, FiniteSets, Sequences, TLC

VARIABLES info, dev, pc, image, tiling, layer_size_B, level, res

vars == <<info, dev, pc, image, tiling, layer_size_B, level, res>>

(***************************************************************************)
(* Bounds of the model                                                     *)
(***************************************************************************)
MaxSizeLog2 == 9
MaxReqLevels == 2
MaxArrayLen == 2
MaxDepthLog2 == 4
MaxLinearLog2 == 15

(***************************************************************************)
(* Program constants                                                       *)
(***************************************************************************)
MAX_LEVELS == 16
IMAGE_USAGE_2D_VIEW_BIT == 1
IMAGE_USAGE_LINEAR_BIT == 2
IMAGE_USAGE_SPARSE_RESIDENCY_BIT == 4
FERMI_A == 37015
TURING_A == 50583
GOB_WIDTH_B == 64
GOB_DEPTH == 1

Panic == -1

(***************************************************************************)
(* Integer helpers (u32 / u64 library functions used by the code)          *)
(***************************************************************************)
Min(a, b) == IF a < b THEN a ELSE b
Max(a, b) == IF a > b THEN a ELSE b

RECURSIVE Pow2(_)
Pow2(n) == IF n = 0 THEN 1 ELSE 2 * Pow2(n - 1)

DivCeil(a, b) == (a + b - 1) \div b

next_multiple_of(a, b) == DivCeil(a, b) * b

\* u32::ilog2: floor(log2(n)), n > 0
RECURSIVE ilog2(_)
ilog2(n) == IF n <= 1 THEN 0 ELSE 1 + ilog2(n \div 2)

\* ilog2_ceil: smallest k with 2^k >= n (0 for n <= 1)
ilog2_ceil(n) == IF n <= 1 THEN 0 ELSE ilog2(n - 1) + 1

HasBit(usage, bit) == (usage \div bit) % 2 = 1

\* u32 Minify: max(1, v >> level)
minify_u32(v, lvl) == Max(1, v \div Pow2(lvl))

\* the four base-256 digits of a u32 below 2^31, least significant first
u32_digits(n) ==
    <<n % 256, (n \div 256) % 256, (n \div 65536) % 256, n \div 16777216>>

\* the same count widened to u64: eight digits
u64_digits(n) == u32_digits(n) \o <<0, 0, 0, 0>>

\* digit k of the schoolbook product before carries
mul_column(A, B, k) ==
    LET term(i) == IF k - i \in 0..3 THEN A[i + 1] * B[k - i + 1] ELSE 0
    IN  term(0) + term(1) + term(2) + term(3)

RECURSIVE mul_carry(_, _, _, _)
mul_carry(A, B, k, carry) ==
    IF k = 8
    THEN <<>>
    ELSE LET c == mul_column(A, B, k) + carry
         IN  <<c % 256>> \o mul_carry(A, B, k + 1, c \div 256)

\* u64::from(a) * u64::from(b): the eight digits of the exact product
mul_u64(a, b) == mul_carry(u32_digits(a), u32_digits(b), 0, 0)

\* the product is below 2^31
mul_is_small(a, b) == a = 0 \/ b <= 2147483647 \div a

\* u32 `*`: the exact product does not fit 32 bits
mul_u32_overflows(a, b) ==
    /\ ~mul_is_small(a, b)
    /\ \E k \in 5..8 : mul_u64(a, b)[k] # 0

\* u32 `*` without overflow checks: the low 32 bits of the product
wrapping_mul_u32(a, b) ==
    IF mul_is_small(a, b)
    THEN a * b
    ELSE LET p == mul_u64(a, b)
         IN  p[1] + 256 * p[2] + 65536 * p[3] + 16777216 * p[4]

(***************************************************************************)
(* Formats: the pipe_format name, with element size and block extent       *)
(***************************************************************************)
DepthStencilFormats ==
    {"Z16_UNORM", "X8Z24_UNORM", "S8X24_UINT", "S8_UINT_Z24_UNORM",
     "X24S8_UINT", "Z24X8_UNORM", "Z24_UNORM_S8_UINT",
     "X32_S8X24_UINT", "Z32_FLOAT_S8X24_UINT", "Z32_FLOAT"}

ColorFormats ==
    {"R8_UNORM", "R8G8_UNORM", "R8G8B8A8_UNORM", "R16G16B16A16_FLOAT",
     "R32G32B32_FLOAT", "R32G32B32A32_FLOAT", "DXT1_RGB"}

AllFormats == DepthStencilFormats \cup ColorFormats

el_size_B(format) ==
    CASE format \in {"R8_UNORM"} -> 1
      [] format \in {"R8G8_UNORM", "Z16_UNORM"} -> 2
      [] format \in {"R8G8B8A8_UNORM", "X8Z24_UNORM", "S8X24_UINT",
                     "S8_UINT_Z24_UNORM", "X24S8_UINT", "Z24X8_UNORM",
                     "Z24_UNORM_S8_UINT", "Z32_FLOAT"} -> 4
      [] format \in {"R16G16B16A16_FLOAT", "X32_S8X24_UINT",
                     "Z32_FLOAT_S8X24_UINT", "DXT1_RGB"} -> 8
      [] format \in {"R32G32B32_FLOAT"} -> 12
      [] format \in {"R32G32B32A32_FLOAT"} -> 16

Extent4D(w, h, d, a) == [width |-> w, height |-> h, depth |-> d, array_len |-> a]

\* the block of samples one element covers
el_extent_sa(format) ==
    IF format = "DXT1_RGB" THEN Extent4D(4, 4, 1, 1) ELSE Extent4D(1, 1, 1, 1)

(***************************************************************************)
(* Extent4D arithmetic                                                     *)
(***************************************************************************)
ext_mul(a, b) ==
    Extent4D(a.width * b.width, a.height * b.height,
             a.depth * b.depth, a.array_len * b.array_len)

ext_div_ceil(a, b) ==
    Extent4D(DivCeil(a.width, b.width), DivCeil(a.height, b.height),
             DivCeil(a.depth, b.depth), DivCeil(a.array_len, b.array_len))

ext_align(a, b) ==
    Extent4D(next_multiple_of(a.width, b.width),
             next_multiple_of(a.height, b.height),
             next_multiple_of(a.depth, b.depth),
             next_multiple_of(a.array_len, b.array_len))

ext_minify(e, lvl) ==
    Extent4D(minify_u32(e.width, lvl), minify_u32(e.height, lvl),
             minify_u32(e.depth, lvl), e.array_len)

\* flat byte count of a byte extent
ext_size_B(e) == e.width * e.height * e.depth

(***************************************************************************)
(* Sample layouts                                                          *)
(***************************************************************************)
choose_sample_layout(samples) ==
    CASE samples = 1 -> "_1x1"
      [] samples = 2 -> "_2x1"
      [] samples = 4 -> "_2x2"
      [] samples = 8 -> "_4x2"
      [] samples = 16 -> "_4x4"
      [] OTHER -> "Invalid"

px_extent_sa_panics(sl) == sl = "Invalid"

px_extent_sa(sl) ==
    CASE sl = "_1x1" -> Extent4D(1, 1, 1, 1)
      [] sl = "_2x1" -> Extent4D(2, 1, 1, 1)
      [] sl = "_2x2" -> Extent4D(2, 2, 1, 1)
      [] sl = "_4x2" -> Extent4D(4, 2, 1, 1)
      [] sl = "_4x4" -> Extent4D(4, 4, 1, 1)
      [] OTHER -> Extent4D(1, 1, 1, 1)

to_sa(e, sl) == ext_mul(e, px_extent_sa(sl))

to_el(e, format, sl) == ext_div_ceil(to_sa(e, sl), el_extent_sa(format))

to_B(e, format, sl) ==
    LET el == to_el(e, format, sl)
    IN  Extent4D(el.width * el_size_B(format), el.height, el.depth, el.array_len)

(***************************************************************************)
(* Tiling                                                                  *)
(***************************************************************************)
Tiling(t, g, x, y, z) ==
    [is_tiled |-> t, gob_height_is_8 |-> g, x_log2 |-> x, y_log2 |-> y, z_log2 |-> z]

TilingDefault == Tiling(FALSE, FALSE, 0, 0, 0)

gob_height(gob_height_is_8) == IF gob_height_is_8 THEN 8 ELSE 4

tiling_extent_B(t) ==
    IF t.is_tiled
    THEN Extent4D(GOB_WIDTH_B * Pow2(t.x_log2),
                  gob_height(t.gob_height_is_8) * Pow2(t.y_log2),
                  GOB_DEPTH * Pow2(t.z_log2), 1)
    ELSE Extent4D(1, 1, 1, 1)

tiling_size_B(t) ==
    LET e == tiling_extent_B(t)
    IN  e.width * e.height * e.depth * e.array_len

to_GOB(e, gob_height_is_8) ==
    ext_div_ceil(e, Extent4D(GOB_WIDTH_B, gob_height(gob_height_is_8), GOB_DEPTH, 1))

tiling_clamp(t, extent_B) ==
    IF ~t.is_tiled THEN t
    ELSE LET te == tiling_extent_B(t)
             x == IF \/ extent_B.width < te.width
                     \/ extent_B.height < te.height
                     \/ extent_B.depth < te.depth
                  THEN 0 ELSE t.x_log2
             eg == to_GOB(extent_B, t.gob_height_is_8)
         IN  Tiling(TRUE, t.gob_height_is_8, x,
                    Min(t.y_log2, ilog2_ceil(eg.height)),
                    Min(t.z_log2, ilog2_ceil(eg.depth)))

\* standard sparse image block shapes, in elements
sparse_block_panics(format, dim) ==
    \/ dim = 1
    \/ el_size_B(format) * 8 \notin {8, 16, 32, 64, 128}

sparse_block_extent_el(format, dim) ==
    LET bits == el_size_B(format) * 8
    IN  IF dim = 2
        THEN CASE bits = 8 -> Extent4D(256, 256, 1, 1)
               [] bits = 16 -> Extent4D(256, 128, 1, 1)
               [] bits = 32 -> Extent4D(128, 128, 1, 1)
               [] bits = 64 -> Extent4D(128, 64, 1, 1)
               [] OTHER -> Extent4D(64, 64, 1, 1)
        ELSE CASE bits = 8 -> Extent4D(64, 32, 32, 1)
               [] bits = 16 -> Extent4D(32, 32, 32, 1)
               [] bits = 32 -> Extent4D(32, 32, 16, 1)
               [] bits = 64 -> Extent4D(32, 16, 16, 1)
               [] OTHER -> Extent4D(16, 16, 16, 1)

tiling_sparse(format, dim) ==
    LET el == sparse_block_extent_el(format, dim)
        b == Extent4D(el.width * el_size_B(format), el.height, el.depth, el.array_len)
        g == to_GOB(b, TRUE)
    IN  Tiling(TRUE, TRUE, ilog2(g.width), ilog2(g.height), ilog2(g.depth))

tiling_choose_panics(extent_px, format, sl, usage) ==
    /\ ~HasBit(usage, IMAGE_USAGE_LINEAR_BIT)
    /\ px_extent_sa_panics(sl)

tiling_choose(extent_px, format, sl, usage) ==
    IF HasBit(usage, IMAGE_USAGE_LINEAR_BIT) THEN TilingDefault
    ELSE tiling_clamp(
            Tiling(TRUE, TRUE, 0, 5,
                   IF HasBit(usage, IMAGE_USAGE_2D_VIEW_BIT) THEN 0 ELSE 5),
            to_B(extent_px, format, sl))

(***************************************************************************)
(* Image and its level-geometry queries                                    *)
(***************************************************************************)
ImageLevel(off, t, rs) == [offset_B |-> off, tiling |-> t, row_stride_B |-> rs]

ImageLevelDefault == ImageLevel(0, TilingDefault, 0)

\* indexing levels[i] panics for i >= MAX_LEVELS
levels_index_panics(i) == i >= MAX_LEVELS

level_extent_px_panics(img, lvl) ==
    ~(lvl = 0 \/ img.sample_layout = "_1x1")

level_extent_px(img, lvl) == ext_minify(img.extent_px, lvl)

level_extent_B_panics(img, lvl) ==
    \/ level_extent_px_panics(img, lvl)
    \/ px_extent_sa_panics(img.sample_layout)

level_extent_B(img, lvl) ==
    to_B(level_extent_px(img, lvl), img.format, img.sample_layout)

level_extent_sa_panics(img, lvl) ==
    \/ level_extent_px_panics(img, lvl)
    \/ px_extent_sa_panics(img.sample_layout)

level_extent_sa(img, lvl) == to_sa(level_extent_px(img, lvl), img.sample_layout)

level_layer_offset_B_panics(img, lvl, layer) ==
    \/ ~(lvl < img.num_levels)
    \/ ~(layer < img.extent_px.array_len)
    \/ levels_index_panics(lvl)

level_layer_offset_B(img, lvl, layer) ==
    img.levels[lvl].offset_B + layer * img.array_stride_B

level_size_B_panics(img, lvl) ==
    \/ ~(lvl < img.num_levels)
    \/ level_extent_B_panics(img, lvl)
    \/ levels_index_panics(lvl)
    \/ /\ ~img.levels[lvl].tiling.is_tiled
       /\ level_extent_B(img, lvl).depth # 1

\* the u32 product of the linear branch does not fit 32 bits
level_size_B_overflows(img, lvl) ==
    /\ ~img.levels[lvl].tiling.is_tiled
    /\ mul_u32_overflows(img.levels[lvl].row_stride_B,
                         level_extent_B(img, lvl).height)

level_size_B(img, lvl) ==
    LET lvl_ext_B == level_extent_B(img, lvl)
        l == img.levels[lvl]
    IN  IF l.tiling.is_tiled
        THEN ext_size_B(ext_align(lvl_ext_B, tiling_extent_B(l.tiling)))
        ELSE wrapping_mul_u32(l.row_stride_B, lvl_ext_B.height)

level_depth_stride_B_panics(img, lvl) ==
    \/ ~(lvl < img.num_levels)
    \/ level_extent_B_panics(img, lvl)
    \/ levels_index_panics(lvl)

level_depth_stride_B(img, lvl) ==
    LET e == ext_align(level_extent_B(img, lvl),
                       tiling_extent_B(img.levels[lvl].tiling))
    IN  wrapping_mul_u32(e.width, e.height)

level_z_offset_B_panics(img, lvl, z) ==
    \/ ~(lvl < img.num_levels)
    \/ level_extent_px_panics(img, lvl)
    \/ ~(z < level_extent_px(img, lvl).depth)
    \/ levels_index_panics(lvl)
    \/ px_extent_sa_panics(img.sample_layout)

level_z_offset_B(img, lvl, z) ==
    LET lvl_extent_px == level_extent_px(img, lvl)
        lvl_tiling == img.levels[lvl].tiling
        z_tl == z \div Pow2(lvl_tiling.z_log2)
        z_gob == z % Pow2(lvl_tiling.z_log2)
        lvl_extent_tl == ext_div_ceil(
            to_B(lvl_extent_px, img.format, img.sample_layout),
            tiling_extent_B(lvl_tiling))
        te == tiling_extent_B(lvl_tiling)
    IN  wrapping_mul_u32(
            wrapping_mul_u32(
                wrapping_mul_u32(lvl_extent_tl.width, lvl_extent_tl.height),
                z_tl),
            tiling_size_B(lvl_tiling))
        + wrapping_mul_u32(wrapping_mul_u32(te.width, te.height), z_gob)

mip_tail_offset_B_panics(img) ==
    \/ ~(img.mip_tail_first_lod > 0)
    \/ levels_index_panics(img.mip_tail_first_lod)

mip_tail_offset_B(img) == img.levels[img.mip_tail_first_lod].offset_B

\* the u64 -> u32 conversion of the difference cannot fail for the layer
\* sizes of this model, which stay far below u32::MAX
mip_tail_size_B_panics(img) ==
    \/ mip_tail_offset_B_panics(img)
    \/ img.array_stride_B - mip_tail_offset_B(img) < 0

mip_tail_size_B(img) == img.array_stride_B - mip_tail_offset_B(img)

(***************************************************************************)
(* PTE kind selection                                                      *)
(***************************************************************************)
tu102_choose_pte_kind(format, compressed) ==
    CASE format = "Z16_UNORM" -> IF compressed THEN 11 ELSE 1
      [] format \in {"X8Z24_UNORM", "S8X24_UINT", "S8_UINT_Z24_UNORM"} ->
            IF compressed THEN 14 ELSE 5
      [] format \in {"X24S8_UINT", "Z24X8_UNORM", "Z24_UNORM_S8_UINT"} ->
            IF compressed THEN 12 ELSE 3
      [] format \in {"X32_S8X24_UINT", "Z32_FLOAT_S8X24_UINT"} ->
            IF compressed THEN 13 ELSE 4
      [] format = "Z32_FLOAT" -> 6
      [] OTHER -> 0

\* variant: 64-bit elements fall back to 0 like 32-bit ones
nvc0_color_pte_kind_fallback(bits, samples, compressed, ms) ==
    CASE bits = 128 -> IF compressed THEN 244 + ms * 2 ELSE 254
      [] bits = 64 ->
            IF compressed
            THEN CASE samples = 1 -> 230
                   [] samples = 2 -> 235
                   [] samples = 4 -> 237
                   [] samples = 8 -> 242
                   [] OTHER -> 0
            ELSE 254
      [] bits = 32 ->
            IF compressed /\ ms # 0
            THEN CASE samples = 2 -> 221
                   [] samples = 4 -> 223
                   [] samples = 8 -> 228
                   [] OTHER -> 0
            ELSE 254
      [] bits \in {16, 8} -> 254
      [] OTHER -> 0

\* the match on blocksize_bits for the formats without a depth/stencil case
nvc0_color_pte_kind(bits, samples, compressed, ms) ==
    CASE bits = 128 -> IF compressed THEN 244 + ms * 2 ELSE 254
      [] bits = 64 ->
            IF compressed
            THEN CASE samples = 1 -> 230
                   [] samples = 2 -> 235
                   [] samples = 4 -> 237
                   [] samples = 8 -> 242
                   [] OTHER -> Panic
            ELSE 254
      [] bits = 32 ->
            IF compressed /\ ms # 0
            THEN CASE samples = 2 -> 221
                   [] samples = 4 -> 223
                   [] samples = 8 -> 228
                   [] OTHER -> 0
            ELSE 254
      [] bits \in {16, 8} -> 254
      [] OTHER -> 0

\* samples.ilog2() panics for samples = 0
nvc0_choose_pte_kind(format, samples, compressed) ==
    IF samples = 0 THEN Panic
    ELSE LET ms == ilog2(samples)
         IN  CASE format = "Z16_UNORM" -> IF compressed THEN 2 + ms ELSE 1
               [] format \in {"X8Z24_UNORM", "S8X24_UINT", "S8_UINT_Z24_UNORM"} ->
                     IF compressed THEN 81 + ms ELSE 70
               [] format \in {"X24S8_UINT", "Z24X8_UNORM", "Z24_UNORM_S8_UINT"} ->
                     IF compressed THEN 23 + ms ELSE 17
               [] format \in {"X32_S8X24_UINT", "Z32_FLOAT_S8X24_UINT"} ->
                     IF compressed THEN 206 + ms ELSE 195
               [] OTHER ->
                     nvc0_color_pte_kind(el_size_B(format) * 8, samples, compressed, ms)

choose_pte_kind(cls_eng3d, format, samples, compressed) ==
    IF cls_eng3d >= TURING_A THEN tu102_choose_pte_kind(format, compressed)
    ELSE IF cls_eng3d >= FERMI_A THEN nvc0_choose_pte_kind(format, samples, compressed)
    ELSE Panic

(***************************************************************************)
(* Image::new, piecewise                                                   *)
(***************************************************************************)
Sparse(i) == HasBit(i.usage, IMAGE_USAGE_SPARSE_RESIDENCY_BIT)

\* variant: a 3D request's sample count is not checked
new_dim_asserts_fail_3d_samples(i) ==
    CASE i.dim = 1 -> ~(i.extent_px.height = 1 /\ i.extent_px.depth = 1 /\ i.samples = 1)
      [] i.dim = 2 -> ~(i.extent_px.depth = 1)
      [] OTHER -> ~(i.extent_px.array_len = 1)

\* the dimensionality assertions at entry
new_dim_asserts_fail(i) ==
    CASE i.dim = 1 -> ~(i.extent_px.height = 1 /\ i.extent_px.depth = 1 /\ i.samples = 1)
      [] i.dim = 2 -> ~(i.extent_px.depth = 1)
      [] OTHER -> ~(i.extent_px.array_len = 1 /\ i.samples = 1)

new_tiling_panics(i) ==
    IF Sparse(i)
    THEN sparse_block_panics(i.format, i.dim)
    ELSE tiling_choose_panics(i.extent_px, i.format,
                              choose_sample_layout(i.samples), i.usage)

new_tiling(i) ==
    IF Sparse(i)
    THEN tiling_sparse(i.format, i.dim)
    ELSE tiling_choose(i.extent_px, i.format, choose_sample_layout(i.samples), i.usage)

new_image_init(i) ==
    [dim |-> i.dim, format |-> i.format, extent_px |-> i.extent_px,
     sample_layout |-> choose_sample_layout(i.samples),
     num_levels |-> i.levels,
     mip_tail_first_lod |-> IF Sparse(i) THEN i.levels ELSE 0,
     levels |-> [k \in 0..(MAX_LEVELS - 1) |-> ImageLevelDefault],
     array_stride_B |-> 0, align_B |-> 0, size_B |-> 0,
     tile_mode |-> 0, pte_kind |-> 0]

\* variant: the last differing level wins
walk_mip_tail_last(cur, base, lvl_tiling, lvl) ==
    IF base # lvl_tiling THEN lvl ELSE cur

\* mip-tail index after looking at one tiled level
walk_mip_tail(cur, base, lvl_tiling, lvl) ==
    IF base # lvl_tiling THEN Min(cur, lvl) ELSE cur

\* the ImageLevel stored for a tiled level
walk_level_tiled(img, base, lvl, off) ==
    LET lvl_ext_B == level_extent_B(img, lvl)
        lvl_tiling == tiling_clamp(base, lvl_ext_B)
    IN  ImageLevel(off, lvl_tiling,
                   ext_align(lvl_ext_B, tiling_extent_B(lvl_tiling)).width)

\* the ImageLevel stored for a linear level
walk_level_linear(img, base, lvl, off) ==
    ImageLevel(off, base, next_multiple_of(level_extent_B(img, lvl).width, 128))

walk_linear_asserts_fail(img, lvl) ==
    \/ ~(img.dim = 2)
    \/ ~(img.num_levels = 1)
    \/ ~(img.sample_layout = "_1x1")
    \/ ~(level_extent_B(img, lvl).depth = 1)

\* the image after one iteration of the level loop
walk_image(img, base, lvl, off) ==
    IF base.is_tiled
    THEN LET l == walk_level_tiled(img, base, lvl, off)
         IN  [img EXCEPT !.levels[lvl] = l,
                         !.mip_tail_first_lod =
                             walk_mip_tail(@, base, l.tiling, lvl)]
    ELSE [img EXCEPT !.levels[lvl] = walk_level_linear(img, base, lvl, off)]

walk_panics(img, base, lvl) ==
    \/ level_extent_B_panics(img, lvl)
    \/ levels_index_panics(lvl)
    \/ ~base.is_tiled /\ walk_linear_asserts_fail(img, lvl)
    \/ level_size_B_panics(walk_image(img, base, lvl, 0), lvl)

\* the u32 product of level_size_B(level) overflows once the level is stored
walk_overflows(img, base, lvl) ==
    level_size_B_overflows(walk_image(img, base, lvl, 0), lvl)

\* variant: advances a tiled level by its unaligned byte extent
walk_advance_unaligned(img, lvl, off) ==
    IF img.levels[lvl].tiling.is_tiled
    THEN off + ext_size_B(level_extent_B(img, lvl))
    ELSE off + level_size_B(img, lvl)

\* the running layer size after the level is stored
walk_advance(img, lvl, off) == off + level_size_B(img, lvl)

\* variant: always moves to the following tile boundary
new_array_stride_B_next_tile(layer_size, lvl0_tiling_size_B) ==
    (layer_size \div lvl0_tiling_size_B + 1) * lvl0_tiling_size_B

new_array_stride_B(layer_size, lvl0_tiling_size_B) ==
    next_multiple_of(layer_size, lvl0_tiling_size_B)

new_tile_mode(t) ==
    IF t.is_tiled THEN t.y_log2 * 16 + t.z_log2 * 256 ELSE 0

\* variant: without the 64K raise for sparse residency
new_align_B_no_sparse(lvl0_tiling, sparse, pte_kind) ==
    LET a0 == tiling_size_B(lvl0_tiling)
    IN  IF lvl0_tiling.is_tiled
        THEN LET a2 == Max(a0, 4096)
             IN  IF pte_kind >= 11 /\ pte_kind <= 14 THEN Max(a2, 65536) ELSE a2
        ELSE Max(a0, 128)

new_align_B(lvl0_tiling, sparse, pte_kind) ==
    LET a0 == tiling_size_B(lvl0_tiling)
        a1 == IF sparse THEN Max(a0, 65536) ELSE a0
    IN  IF lvl0_tiling.is_tiled
        THEN LET a2 == Max(a1, 4096)
             IN  IF pte_kind >= 11 /\ pte_kind <= 14 THEN Max(a2, 65536) ELSE a2
        ELSE Max(a1, 128)

\* variant: without the final rounding to align_B
new_size_B_unrounded(array_stride_B, array_len, align_B) ==
    array_stride_B * array_len

new_size_B(array_stride_B, array_len, align_B) ==
    next_multiple_of(array_stride_B * array_len, align_B)

new_finish_panics(img, i, cls) ==
    /\ img.levels[0].tiling.is_tiled
    /\ choose_pte_kind(cls, i.format, i.samples, FALSE) = Panic

new_finish(img, i, cls, layer_size) ==
    LET t0 == img.levels[0].tiling
        stride == new_array_stride_B(layer_size, tiling_size_B(t0))
        pte == IF t0.is_tiled THEN choose_pte_kind(cls, i.format, i.samples, FALSE) ELSE 0
        align == new_align_B(t0, Sparse(i), pte)
    IN  [img EXCEPT !.array_stride_B = stride,
                    !.tile_mode = new_tile_mode(t0),
                    !.pte_kind = pte,
                    !.align_B = align,
                    !.size_B = new_size_B(stride, img.extent_px.array_len, align)]

(***************************************************************************)
(* Sub-image derivation: one level                                         *)
(***************************************************************************)
image_for_level_panics(img, lvl) ==
    \/ ~(lvl < img.num_levels)
    \/ level_extent_px_panics(img, lvl)
    \/ levels_index_panics(lvl)
    \/ /\ lvl + 1 < img.num_levels
       /\ \/ levels_index_panics(lvl + 1)
          \/ ~(img.levels[lvl + 1].offset_B > img.levels[lvl].offset_B)

image_for_level_size_B(img, lvl) ==
    LET l == img.levels[lvl]
        size0 == img.size_B - l.offset_B
    IN  IF lvl + 1 < img.num_levels
        THEN size0 - (img.levels[lvl + 1].offset_B - l.offset_B)
        ELSE size0

image_for_level(img, lvl) ==
    LET l == img.levels[lvl]
    IN  [img EXCEPT
            !.extent_px = level_extent_px(img, lvl),
            !.num_levels = 1,
            !.levels = [k \in 0..(MAX_LEVELS - 1) |->
                           IF k = 0 THEN [l EXCEPT !.offset_B = 0]
                           ELSE ImageLevelDefault],
            !.align_B = tiling_size_B(l.tiling),
            !.size_B = image_for_level_size_B(img, lvl),
            !.mip_tail_first_lod = IF lvl < img.mip_tail_first_lod THEN 1 ELSE 0]

(***************************************************************************)
(* Inputs                                                                  *)
(***************************************************************************)
Dims == {1, 2, 3}
NewFormats == {"R8_UNORM", "R8G8B8A8_UNORM", "DXT1_RGB"}
Widths == {130, Pow2(MaxSizeLog2)}
Heights == {1, Pow2(MaxSizeLog2)}
Depths == {1, Pow2(MaxDepthLog2)}
ArrayLens == 1..MaxArrayLen
LevelCounts == (0..MaxReqLevels) \cup {MAX_LEVELS, MAX_LEVELS + 1}
SampleCounts == {1, 3, 4}
Usages == 0..7
Classes == {FERMI_A - 1, FERMI_A, TURING_A}
PteSampleCounts == {1, 2, 4, 8, 16}
MaxZ == 1
MaxQueryLevel == 2

\* large linear 2D images: one level, one sample, 4-byte texels, the
\* largest square of the model
LinearUsages == {u \in Usages : /\ HasBit(u, IMAGE_USAGE_LINEAR_BIT)
                               /\ ~HasBit(u, IMAGE_USAGE_SPARSE_RESIDENCY_BIT)}

LargeLinearInfos ==
    {[dim |-> 2, format |-> "R8G8B8A8_UNORM",
      extent_px |-> Extent4D(Pow2(MaxLinearLog2), Pow2(MaxLinearLog2), 1, a),
      levels |-> 1, samples |-> 1, usage |-> u] :
        a \in ArrayLens, u \in LinearUsages}

InitInfos ==
    {[dim |-> d, format |-> f, extent_px |-> Extent4D(w, h, z, a),
      levels |-> l, samples |-> s, usage |-> u] :
        d \in Dims, f \in NewFormats, w \in Widths, h \in Heights,
        z \in Depths, a \in ArrayLens, l \in LevelCounts,
        s \in SampleCounts, u \in Usages}
        \cup LargeLinearInfos

NoImage == [none |-> TRUE]
NoRes == [op |-> "none"]

Res(op, lvl, arg, panicked, val) ==
    [op |-> op, lvl |-> lvl, arg |-> arg, panicked |-> panicked,
     val |-> IF panicked THEN Panic ELSE val]

(***************************************************************************)
(* State machine                                                           *)
(***************************************************************************)
Init ==
    /\ info \in InitInfos
    /\ dev \in Classes
    /\ pc = "new"
    /\ image = NoImage
    /\ tiling = TilingDefault
    /\ layer_size_B = 0
    /\ level = 0
    /\ res = NoRes

\* Image::new up to the start of the level loop
NewBegin ==
    /\ pc = "new"
    /\ IF new_dim_asserts_fail(info) \/ new_tiling_panics(info)
       THEN /\ pc' = "panic"
            /\ UNCHANGED <<image, tiling>>
       ELSE /\ pc' = "walk"
            /\ image' = new_image_init(info)
            /\ tiling' = new_tiling(info)
    /\ layer_size_B' = 0
    /\ level' = 0
    /\ UNCHANGED <<info, dev, res>>

\* variant: an iteration past the last slot of `levels` stores nothing and
\* goes on instead of failing on the index
WalkLevel_skip_past_end ==
    /\ pc = "walk"
    /\ level < info.levels
    /\ IF level >= MAX_LEVELS
       THEN /\ level' = level + 1
            /\ UNCHANGED <<pc, image, layer_size_B>>
       ELSE IF walk_panics(image, tiling, level)
       THEN /\ pc' = "panic"
            /\ image' = NoImage
            /\ UNCHANGED <<layer_size_B, level>>
       ELSE \/ /\ walk_overflows(image, tiling, level)
               /\ pc' = "panic"
               /\ image' = NoImage
               /\ UNCHANGED <<layer_size_B, level>>
            \/ LET stored == walk_image(image, tiling, level, layer_size_B)
               IN  /\ image' = stored
                   /\ layer_size_B' = walk_advance(stored, level, layer_size_B)
                   /\ level' = level + 1
                   /\ pc' = "walk"
    /\ UNCHANGED <<info, dev, tiling, res>>

\* one iteration of `for level in 0..info.levels`
WalkLevel ==
    /\ pc = "walk"
    /\ level < info.levels
    /\ IF walk_panics(image, tiling, level)
       THEN /\ pc' = "panic"
            /\ image' = NoImage
            /\ UNCHANGED <<layer_size_B, level>>
       ELSE \/ /\ walk_overflows(image, tiling, level)
               /\ pc' = "panic"
               /\ image' = NoImage
               /\ UNCHANGED <<layer_size_B, level>>
            \/ LET stored == walk_image(image, tiling, level, layer_size_B)
               IN  /\ image' = stored
                   /\ layer_size_B' = walk_advance(stored, level, layer_size_B)
                   /\ level' = level + 1
                   /\ pc' = "walk"
    /\ UNCHANGED <<info, dev, tiling, res>>

\* Image::new after the level loop
NewFinish ==
    /\ pc = "walk"
    /\ level = info.levels
    /\ IF new_finish_panics(image, info, dev)
       THEN /\ pc' = "panic"
            /\ image' = NoImage
       ELSE /\ pc' = "done"
            /\ image' = new_finish(image, info, dev, layer_size_B)
    /\ UNCHANGED <<info, dev, tiling, layer_size_B, level, res>>

\* A behaviour observes one query of the finished image: the queries are
\* pure, so a second one sees the same image as the first.
QueryLevels ==
    (0..MaxQueryLevel)
        \cup {k \in {image.num_levels - 1, image.num_levels} : k >= 0}

ImageForLevel ==
    /\ pc = "done"
    /\ res = NoRes
    /\ \E k \in QueryLevels :
          LET p == image_for_level_panics(image, k)
          IN  res' = Res("image_for_level", k, 0, p,
                         [image |-> image_for_level(image, k),
                          offset_in_bytes_out |-> image.levels[k].offset_B])
    /\ UNCHANGED <<info, dev, pc, image, tiling, layer_size_B, level>>

MipTailOffset ==
    /\ pc = "done"
    /\ res = NoRes
    /\ res' = Res("mip_tail_offset_B", 0, 0, mip_tail_offset_B_panics(image),
                  mip_tail_offset_B(image))
    /\ UNCHANGED <<info, dev, pc, image, tiling, layer_size_B, level>>

MipTailSize ==
    /\ pc = "done"
    /\ res = NoRes
    /\ res' = Res("mip_tail_size_B", 0, 0, mip_tail_size_B_panics(image),
                  mip_tail_size_B(image))
    /\ UNCHANGED <<info, dev, pc, image, tiling, layer_size_B, level>>

LevelExtentPx ==
    /\ pc = "done"
    /\ res = NoRes
    /\ \E k \in QueryLevels :
          res' = Res("level_extent_px", k, 0, level_extent_px_panics(image, k),
                     level_extent_px(image, k))
    /\ UNCHANGED <<info, dev, pc, image, tiling, layer_size_B, level>>

LevelExtentSa ==
    /\ pc = "done"
    /\ res = NoRes
    /\ \E k \in QueryLevels :
          res' = Res("level_extent_sa", k, 0, level_extent_sa_panics(image, k),
                     level_extent_sa(image, k))
    /\ UNCHANGED <<info, dev, pc, image, tiling, layer_size_B, level>>

LevelSizeB ==
    /\ pc = "done"
    /\ res = NoRes
    /\ \E k \in QueryLevels :
          res' = Res("level_size_B", k, 0, level_size_B_panics(image, k),
                     level_size_B(image, k))
    /\ UNCHANGED <<info, dev, pc, image, tiling, layer_size_B, level>>

LevelDepthStrideB ==
    /\ pc = "done"
    /\ res = NoRes
    /\ \E k \in QueryLevels :
          res' = Res("level_depth_stride_B", k, 0,
                     level_depth_stride_B_panics(image, k),
                     level_depth_stride_B(image, k))
    /\ UNCHANGED <<info, dev, pc, image, tiling, layer_size_B, level>>

LevelLayerOffsetB ==
    /\ pc = "done"
    /\ res = NoRes
    /\ \E k \in QueryLevels, layer \in 0..image.extent_px.array_len :
          res' = Res("level_layer_offset_B", k, layer,
                     level_layer_offset_B_panics(image, k, layer),
                     level_layer_offset_B(image, k, layer))
    /\ UNCHANGED <<info, dev, pc, image, tiling, layer_size_B, level>>

LevelZOffsetB ==
    /\ pc = "done"
    /\ res = NoRes
    /\ \E k \in QueryLevels, z \in 0..MaxZ :
          res' = Res("level_z_offset_B", k, z,
                     level_z_offset_B_panics(image, k, z),
                     level_z_offset_B(image, k, z))
    /\ UNCHANGED <<info, dev, pc, image, tiling, layer_size_B, level>>

Next ==
    \/ NewBegin
    \/ WalkLevel
    \/ NewFinish
    \/ ImageForLevel
    \/ MipTailOffset
    \/ MipTailSize
    \/ LevelExtentPx
    \/ LevelExtentSa
    \/ LevelSizeB
    \/ LevelDepthStrideB
    \/ LevelLayerOffsetB
    \/ LevelZOffsetB

Spec == Init /\ [][Next]_vars

(***************************************************************************)
(* choose_pte_kind on its own: a pure function of its arguments            *)
(***************************************************************************)
PteClasses == {FERMI_A - 1, FERMI_A, TURING_A - 1, TURING_A}

InitPte ==
    /\ info = [dim |-> 2, format |-> "R8_UNORM", extent_px |-> Extent4D(1, 1, 1, 1),
               levels |-> 1, samples |-> 1, usage |-> 0]
    /\ dev \in PteClasses
    /\ pc = "pte"
    /\ image = NoImage
    /\ tiling = TilingDefault
    /\ layer_size_B = 0
    /\ level = 0
    /\ res = NoRes

ChoosePteKind ==
    /\ pc = "pte"
    /\ res = NoRes
    /\ \E f \in AllFormats, s \in PteSampleCounts, c \in BOOLEAN :
          LET v == choose_pte_kind(dev, f, s, c)
          IN  res' = [op |-> "choose_pte_kind", format |-> f, samples |-> s,
                      compressed |-> c, panicked |-> (v = Panic), val |-> v]
    /\ UNCHANGED <<info, dev, pc, image, tiling, layer_size_B, level>>

NextPte == ChoosePteKind

SpecPte == InitPte /\ [][NextPte]_vars

(***************************************************************************)
(* Properties                                                              *)
(***************************************************************************)
Done == pc = "done"

LastLevel == image.num_levels - 1

\* C1: image_for_level(k) returns an image whose size_B is the distance from
\* level k's offset to level k+1's offset, or, for the last level, the source
\* image's size_B minus level k's offset.
C1_ImageForLevelSize ==
    (res.op = "image_for_level" /\ ~res.panicked) =>
        LET k == res.lvl
        IN  res.val.image.size_B =
                IF k + 1 < image.num_levels
                THEN image.levels[k + 1].offset_B - image.levels[k].offset_B
                ELSE image.size_B - image.levels[k].offset_B

\* C2: in a constructed image level 0 starts at offset 0 and each level
\* starts where the previous one ends: consecutive offsets differ by
\* level_size_B(k), hence increase strictly.
C2_TightlyPacked ==
    Done =>
        /\ image.levels[0].offset_B = 0
        /\ \A k \in 0..(image.num_levels - 2) :
              /\ image.levels[k + 1].offset_B - image.levels[k].offset_B
                     = level_size_B(image, k)
              /\ image.levels[k + 1].offset_B > image.levels[k].offset_B

C2_Witness ==
    /\ Done
    /\ image.num_levels >= 3
    /\ image.levels[2].tiling # image.levels[0].tiling
    /\ image.levels[2].offset_B > image.levels[1].offset_B

\* C3 as stated: the last level's size is exactly the distance from its
\* offset to the end of the layer (array_stride_B).
C3_LastLevelFillsLayer ==
    (Done /\ image.num_levels >= 1) =>
        level_size_B(image, LastLevel)
            = image.array_stride_B - image.levels[LastLevel].offset_B

C3_Gap ==
    image.array_stride_B - image.levels[LastLevel].offset_B
        - level_size_B(image, LastLevel)

\* C3 amended: the layer ends at the end of the last level rounded up to a
\* multiple of level 0's tile size, so the last level's size is at most the
\* distance to the layer's end and falls short of it by less than one
\* level-0 tile.
C3_LastLevelWithinLayer ==
    (Done /\ image.num_levels >= 1) =>
        /\ C3_Gap >= 0
        /\ C3_Gap < tiling_size_B(image.levels[0].tiling)
        /\ image.array_stride_B % tiling_size_B(image.levels[0].tiling) = 0

C3_Witness ==
    /\ Done
    /\ image.num_levels >= 2
    /\ C3_Gap > 0

\* C4: array_stride_B is a multiple of level 0's tile size; size_B is
\* array_stride_B * array_len rounded up to align_B, a multiple of align_B.
C4_StrideAndSize ==
    Done =>
        LET raw == image.array_stride_B * image.extent_px.array_len
        IN  /\ image.array_stride_B % tiling_size_B(image.levels[0].tiling) = 0
            /\ image.size_B % image.align_B = 0
            /\ image.size_B >= raw
            /\ image.size_B - raw < image.align_B

C4_Witness ==
    /\ Done
    /\ image.extent_px.array_len > 1
    /\ image.num_levels >= 1
    /\ (image.array_stride_B * image.extent_px.array_len) % image.align_B # 0

\* the levels of the finished image whose tiling is not the base tiling
C5_Differing == {k \in 0..(image.num_levels - 1) : image.levels[k].tiling # tiling}

C5_Lowest(S) == CHOOSE k \in S : \A j \in S : k <= j

C5_Final ==
    Done =>
        image.mip_tail_first_lod =
            IF ~Sparse(info) THEN 0
            ELSE IF C5_Differing = {} THEN info.levels
            ELSE C5_Lowest(C5_Differing)

C5_WalkStep ==
    (pc = "walk" /\ pc' \in {"walk", "done"}) =>
        image'.mip_tail_first_lod <= image.mip_tail_first_lod

\* C5: without SPARSE_RESIDENCY the mip-tail index is 0; with it the index is
\* the lowest level whose clamped tiling differs from the base tiling, or the
\* requested level count if none differs; the index never increases while
\* the levels are walked.
C5_MipTailIndex == [](C5_Final) /\ [][C5_WalkStep]_vars

C5_Witness ==
    /\ Done
    /\ Sparse(info)
    /\ image.mip_tail_first_lod = 3
    /\ image.num_levels > 4
    /\ image.levels[4].tiling # image.levels[3].tiling

\* C6: mip_tail_offset_B and mip_tail_size_B fail whenever the image has no
\* mip tail (non-sparse, or sparse with the index equal to the level count)
\* and otherwise return the tail's first offset and the rest of the layer.
\* A sparse image whose index is 0 because level 0 itself is clamped is left
\* open here: the code reads 0 as "unset".
C6_MipTailQueries ==
    res.op \in {"mip_tail_offset_B", "mip_tail_size_B"} =>
        LET lod == image.mip_tail_first_lod
            no_tail == ~Sparse(info) \/ lod = image.num_levels
        IN  /\ no_tail => res.panicked
            /\ (~no_tail /\ lod > 0) =>
                  /\ ~res.panicked
                  /\ res.op = "mip_tail_offset_B" =>
                         res.val = image.levels[lod].offset_B
                  /\ res.op = "mip_tail_size_B" =>
                         res.val = image.array_stride_B - image.levels[lod].offset_B

LevelQueries ==
    {"level_extent_px", "level_extent_sa", "level_size_B",
     "level_depth_stride_B", "level_layer_offset_B", "level_z_offset_B"}

\* C7: every level-geometry query (level_extent_px, level_extent_sa,
\* level_size_B, level_depth_stride_B, level_layer_offset_B,
\* level_z_offset_B) called with level >= num_levels fails and returns no
\* value.
C7_AllLevelQueriesChecked ==
    (res.op \in LevelQueries /\ res.lvl >= image.num_levels) => res.panicked

\* C8 as stated: on a supported generation choose_pte_kind returns a code
\* for every format, sample count in {1,2,4,8,16} and compressed flag.
C8_PteKindTotal ==
    (res.op = "choose_pte_kind" /\ dev >= FERMI_A) =>
        /\ ~res.panicked
        /\ res.val \in 0..255

C8_LegacyListed ==
    {"Z16_UNORM", "X8Z24_UNORM", "S8X24_UINT", "S8_UINT_Z24_UNORM",
     "X24S8_UINT", "Z24X8_UNORM", "Z24_UNORM_S8_UINT",
     "X32_S8X24_UINT", "Z32_FLOAT_S8X24_UINT"}

\* C8 amended: on a supported generation choose_pte_kind returns a code in
\* 0..255 for every combination except one: before TURING_A, a format
\* without a depth/stencil case and with 64-bit elements, compressed, at 16
\* samples fails ("Unsupported sample count").  A format without a listed
\* case yields 0 from TURING_A on; before it, 0 if its element is not 8, 16,
\* 32, 64 or 128 bits wide.
C8_PteKindTotalButOne ==
    (res.op = "choose_pte_kind" /\ dev >= FERMI_A) =>
        LET legacy == dev < TURING_A
            unlisted == res.format \notin C8_LegacyListed
            bits == el_size_B(res.format) * 8
        IN  /\ res.panicked <=>
                (legacy /\ unlisted /\ bits = 64 /\ res.compressed /\ res.samples = 16)
            /\ ~res.panicked => res.val \in 0..255
            /\ (~legacy /\ unlisted /\ res.format # "Z32_FLOAT") => res.val = 0
            /\ (legacy /\ unlisted /\ bits \notin {8, 16, 32, 64, 128}) => res.val = 0

C8_Witness ==
    /\ res.op = "choose_pte_kind"
    /\ dev >= FERMI_A
    /\ res.panicked

\* C9: align_B is at least level 0's tile size; at least 65536 for a sparse
\* request; for a tiled level 0 at least 4096, and 65536 when pte_kind is in
\* 0x0b..0x0e; for a linear level 0 at least 128.
C9_Alignment ==
    Done =>
        LET t0 == image.levels[0].tiling
        IN  /\ image.align_B >= tiling_size_B(t0)
            /\ Sparse(info) => image.align_B >= 65536
            /\ t0.is_tiled => image.align_B >= 4096
            /\ (t0.is_tiled /\ image.pte_kind \in 11..14) => image.align_B >= 65536
            /\ ~t0.is_tiled => image.align_B >= 128

C9_Witness ==
    /\ Done
    /\ Sparse(info)
    /\ image.levels[0].tiling.is_tiled
    /\ tiling_size_B(image.levels[0].tiling) < 4096
    /\ image.align_B = 65536

C10_Violation ==
    LET e == info.extent_px
    IN  \/ info.dim = 1 /\ (e.height # 1 \/ e.depth # 1 \/ info.samples # 1)
        \/ info.dim = 2 /\ e.depth # 1
        \/ info.dim = 3 /\ (e.array_len # 1 \/ info.samples # 1)

\* C10: a request that violates the dimensionality constraints never gets
\* past the entry of Image::new: construction fails and no image exists.
C10_DimViolationFails ==
    C10_Violation => (pc \in {"new", "panic"} /\ image = NoImage)

C10_Witness ==
    /\ C10_Violation
    /\ pc = "panic"
    /\ info.dim = 3
    /\ info.samples = 4
    /\ info.extent_px.array_len = 1

Ended == pc \in {"done", "panic"}

\* The loop counter is the number of completed iterations.  While it is
\* below info.levels the next iteration can run, and at info.levels the tail
\* of Image::new can: no walk is left without a step.
C11_Bounded ==
    /\ level <= MAX_LEVELS
    /\ pc = "walk" => level <= info.levels
    /\ Done => image.num_levels <= MAX_LEVELS
    /\ info.levels > MAX_LEVELS => ~Done

\* every iteration that does not fail advances the counter by one, and a
\* call that has returned or failed takes no further construction step
C11_Step ==
    /\ pc = "new" => pc' \in {"walk", "panic"}
    /\ (pc = "walk" /\ pc' = "walk") => level' = level + 1
    /\ (pc = "walk" /\ level = info.levels) => pc' \in {"done", "panic"}
    /\ Ended => pc' = pc

\* C11: construction ends, with an image or a failure, having completed at
\* most 16 iterations of the level loop whatever level count is requested;
\* a returned image has num_levels <= 16, and a request for more than 16
\* levels returns no image.
C11_EndsWithin16Levels == [](C11_Bounded) /\ [][C11_Step]_vars

C11_Witness ==
    /\ pc = "panic"
    /\ info.levels > MAX_LEVELS
    /\ level = MAX_LEVELS
    /\ layer_size_B > 0

\* a returned image whose level 0 exists and is linear
LinearLevel0 ==
    /\ Done
    /\ image.num_levels >= 1
    /\ ~image.levels[0].tiling.is_tiled

\* C12: a returned image whose level 0 is linear is 2D with one level and
\* sample layout 1x1, its row stride is the byte width of the level rounded
\* up to a multiple of 128, and level_size_B(0) is the exact 64-bit product
\* of the row stride and the number of rows of the level.
C12_LinearLayout ==
    LinearLevel0 =>
        LET e == level_extent_B(image, 0)
            l == image.levels[0]
        IN  /\ image.dim = 2
            /\ image.num_levels = 1
            /\ image.sample_layout = "_1x1"
            /\ l.row_stride_B = next_multiple_of(e.width, 128)
            /\ u64_digits(level_size_B(image, 0)) = mul_u64(l.row_stride_B, e.height)

====
